---- MODULE Spec2Model ----
(***************************************************************************)
(* Model of wordtotex.converter.DocxToLatexConverter: the traversal of a   *)
(* parsed document's body, the list-environment state kept across blocks,  *)
(* text escaping, table column alignment and image extraction.             *)
(*                                                                         *)
(* Python strings are TLA+ strings; Python's None is the value None.       *)
(***************************************************************************)
EXTENDS Integers, Sequences, FiniteSets, TLC

None == "None"

(***************************************************************************)
(* String helpers (Python str methods used by the converter).              *)
(***************************************************************************)
CharAt(s, i) == SubSeq(s, i, i)

RECURSIVE JoinStr(_, _)
\* sep.join(parts)
JoinStr(sep, parts) ==
    IF Len(parts) = 0 THEN ""
    ELSE IF Len(parts) = 1 THEN parts[1]
    ELSE parts[1] \o sep \o JoinStr(sep, Tail(parts))

LowerChar(c) ==
    CASE c = "A" -> "a" [] c = "B" -> "b" [] c = "C" -> "c" [] c = "D" -> "d"
      [] c = "E" -> "e" [] c = "F" -> "f" [] c = "G" -> "g" [] c = "H" -> "h"
      [] c = "I" -> "i" [] c = "J" -> "j" [] c = "K" -> "k" [] c = "L" -> "l"
      [] c = "M" -> "m" [] c = "N" -> "n" [] c = "O" -> "o" [] c = "P" -> "p"
      [] c = "Q" -> "q" [] c = "R" -> "r" [] c = "S" -> "s" [] c = "T" -> "t"
      [] c = "U" -> "u" [] c = "V" -> "v" [] c = "W" -> "w" [] c = "X" -> "x"
      [] c = "Y" -> "y" [] c = "Z" -> "z" [] OTHER -> c

RECURSIVE Lower(_)
\* str.lower()
Lower(s) == IF s = "" THEN "" ELSE LowerChar(CharAt(s, 1)) \o Lower(SubSeq(s, 2, Len(s)))

\* str.startswith(prefix)
StartsWith(s, prefix) == Len(s) >= Len(prefix) /\ SubSeq(s, 1, Len(prefix)) = prefix

\* str.endswith(suffix)
EndsWith(s, suffix) ==
    Len(s) >= Len(suffix) /\ SubSeq(s, Len(s) - Len(suffix) + 1, Len(s)) = suffix

\* keyword in s
Contains(s, keyword) ==
    \E i \in 1..(Len(s) - Len(keyword) + 1) : SubSeq(s, i, i + Len(keyword) - 1) = keyword

IsSpace(c) == c \in {" ", "\n", "\t", "\r"}

RECURSIVE LStrip(_)
LStrip(s) == IF s # "" /\ IsSpace(CharAt(s, 1)) THEN LStrip(SubSeq(s, 2, Len(s))) ELSE s

RECURSIVE RStrip(_)
RStrip(s) == IF s # "" /\ IsSpace(CharAt(s, Len(s))) THEN RStrip(SubSeq(s, 1, Len(s) - 1)) ELSE s

\* str.strip()
Strip(s) == RStrip(LStrip(s))

(***************************************************************************)
(* _escape_tex                                                             *)
(***************************************************************************)
\* the replacements dict, with dict.get(char, char)
Replacements(char) ==
    CASE char = "\\" -> "\\textbackslash{}"
      [] char = "&" -> "\\&"
      [] char = "%" -> "\\%"
      [] char = "$" -> "\\$"
      [] char = "#" -> "\\#"
      [] char = "_" -> "\\_"
      [] char = "{" -> "\\{"
      [] char = "}" -> "\\}"
      [] char = "~" -> "\\textasciitilde{}"
      [] char = "^" -> "\\textasciicircum{}"
      [] OTHER -> char

RECURSIVE ReplaceNewline(_)
\* text.replace("\n", r"\\ ")
ReplaceNewline(text) ==
    IF text = "" THEN ""
    ELSE (IF CharAt(text, 1) = "\n" THEN "\\\\ " ELSE CharAt(text, 1))
         \o ReplaceNewline(SubSeq(text, 2, Len(text)))

RECURSIVE EscapeChars(_)
\* the loop over the characters and the final "".join(escaped)
EscapeChars(text) ==
    IF text = "" THEN ""
    ELSE Replacements(CharAt(text, 1)) \o EscapeChars(SubSeq(text, 2, Len(text)))

EscapeTex(text) == IF text = "" THEN "" ELSE EscapeChars(ReplaceNewline(text))

(***************************************************************************)
(* Style classification                                                    *)
(*                                                                         *)
(* A value the code binds to a local and then reads several times is the   *)
(* parameter of a helper operator here (HeadingOf(normalized), ...).       *)
(***************************************************************************)
\* the chain of startswith tests on the normalized style name
HeadingOf(normalized) ==
    IF StartsWith(normalized, "heading 1") THEN "\\section"
    ELSE IF StartsWith(normalized, "heading 2") THEN "\\subsection"
    ELSE IF StartsWith(normalized, "heading 3") THEN "\\subsubsection"
    ELSE IF StartsWith(normalized, "heading 4") THEN "\\paragraph"
    ELSE IF StartsWith(normalized, "heading 5") THEN "\\subparagraph"
    ELSE None

\* mutant: the style name is matched without lower-casing it
HeadingCommandCaseSensitive(style_name) == HeadingOf(style_name)

HeadingCommand(style_name) == HeadingOf(Lower(style_name))

\* paragraph.style.name, "" when the paragraph has no style
StyleName(paragraph) == IF paragraph.style = None THEN "" ELSE paragraph.style

ListTypeOf(style_name) ==
    IF StartsWith(style_name, "list bullet") \/ StartsWith(style_name, "blockquote")
    THEN "itemize"
    ELSE IF StartsWith(style_name, "list number") THEN "enumerate"
    ELSE None

GetListType(paragraph) == ListTypeOf(Lower(StyleName(paragraph)))

(***************************************************************************)
(* Alignment and run formatting                                            *)
(***************************************************************************)
ApplyAlignment(text, alignment) ==
    IF alignment = "CENTER" THEN "\\begin{center}" \o text \o "\\end{center}"
    ELSE IF alignment = "RIGHT" THEN "\\begin{flushright}" \o text \o "\\end{flushright}"
    ELSE text

MapAlignment(alignment) ==
    IF alignment = "CENTER" THEN "c"
    ELSE IF alignment = "RIGHT" THEN "r"
    ELSE "l"

CellAlignmentPrefix(alignment) ==
    IF alignment = "CENTER" THEN "\\centering"
    ELSE IF alignment = "RIGHT" THEN "\\raggedleft"
    ELSE ""

IsMonospace(font_name) ==
    \E keyword \in {"mono", "consolas", "courier", "code"} : Contains(Lower(font_name), keyword)

\* an Optional[float] is <<>> for None and <<pt>> for a size in points
SizeCommand(size_pt) ==
    IF size_pt = <<>> THEN None
    ELSE IF size_pt[1] >= 18 THEN "\\Large"
    ELSE IF size_pt[1] >= 16 THEN "\\large"
    ELSE IF size_pt[1] <= 8 THEN "\\footnotesize"
    ELSE IF size_pt[1] <= 9 THEN "\\small"
    ELSE None

\* run.color is the hex string of font.color.rgb, or None; an alpha prefix is stripped
HexColor(run) ==
    IF run.color = None THEN None
    ELSE IF Len(run.color) = 8 THEN SubSeq(run.color, 3, 8)
    ELSE run.color

ColorWrap(formatted, hex_color) ==
    IF hex_color # None /\ hex_color # ""
    THEN "\\textcolor[HTML]{" \o hex_color \o "}{" \o formatted \o "}"
    ELSE formatted

UnderlineWrap(formatted, run) ==
    IF run.underline THEN "\\underline{" \o formatted \o "}" ELSE formatted

ItalicWrap(formatted, run) ==
    IF run.italic THEN "\\textit{" \o formatted \o "}" ELSE formatted

BoldWrap(formatted, run) ==
    IF run.bold THEN "\\textbf{" \o formatted \o "}" ELSE formatted

MonoWrap(formatted, run) ==
    IF run.font_name # None /\ run.font_name # "" /\ IsMonospace(run.font_name)
    THEN "\\texttt{" \o formatted \o "}" ELSE formatted

SizeWrap(formatted, size_cmd) ==
    IF size_cmd # None THEN "{" \o size_cmd \o " " \o formatted \o "}" ELSE formatted

\* color innermost, then underline, italic, bold, monospace, size outermost
ApplyRunFormatting(content, run) ==
    SizeWrap(
        MonoWrap(
            BoldWrap(
                ItalicWrap(
                    UnderlineWrap(ColorWrap(content, HexColor(run)), run),
                    run),
                run),
            run),
        SizeCommand(run.size_pt))

(***************************************************************************)
(* The document part's relationships: r:embed id -> image part.            *)
(***************************************************************************)
RelatedParts ==
    [rid \in {"rId1", "rId2", "rId3"} |->
        CASE rid = "rId1" -> [partname |-> "/word/media/image1.png", blob |-> "png-bytes"]
          [] rid = "rId2" -> [partname |-> "/word/media/image2.jpeg", blob |-> "jpeg-bytes"]
          [] rid = "rId3" -> [partname |-> "/word/media/chart", blob |-> "raw-bytes"]]

RECURSIVE LastIndexOf(_, _)
\* str.rfind(c) + 1, 0 when c does not occur
LastIndexOf(s, c) ==
    IF s = "" THEN 0
    ELSE IF CharAt(s, Len(s)) = c THEN Len(s)
    ELSE LastIndexOf(SubSeq(s, 1, Len(s) - 1), c)

\* Path(p).name
BaseName(p) == SubSeq(p, LastIndexOf(p, "/") + 1, Len(p))

\* the suffix of a file name whose last dot is at position i (0: no dot)
SuffixAt(name, i) == IF 1 < i /\ i < Len(name) THEN SubSeq(name, i, Len(name)) ELSE ""

SuffixOfName(name) == SuffixAt(name, LastIndexOf(name, "."))

\* Path(p).suffix
Suffix(p) == SuffixOfName(BaseName(p))

\* base / name
PathJoin(base, name) == base \o "/" \o name

\* Path(p).parent
Parent(p) == SubSeq(p, 1, LastIndexOf(p, "/") - 1)

StemOfName(name, suffix) == SubSeq(name, 1, Len(name) - Len(suffix))

\* Path(p).stem
Stem(p) == StemOfName(BaseName(p), Suffix(p))

(***************************************************************************)
(* Image extraction.  st = [self |-> the converter's fields,               *)
(*                          fs |-> [dirs, files] the file system]          *)
(***************************************************************************)
RelativeTo(image_path, base_dir) ==
    IF StartsWith(image_path, base_dir \o "/")
    THEN SubSeq(image_path, Len(base_dir) + 2, Len(image_path))
    ELSE image_path

RelativeImagePath(image_path, tex_output_dir) ==
    RelativeTo(image_path, IF tex_output_dir # None THEN tex_output_dir ELSE Parent(image_path))

\* _image_dir.mkdir(parents=True, exist_ok=True)
EnsureImageDir(st) == [st EXCEPT !.fs.dirs = @ \cup {st.self.image_dir}]

\* image_path.write_bytes(blob)
WriteBytes(files, path, blob) ==
    [p \in (DOMAIN files) \cup {path} |-> IF p = path THEN blob ELSE files[p]]

\* ext = suffix or ".png"
ExtOr(suffix) == IF suffix # "" THEN suffix ELSE ".png"

ImageName(image_part, image_counter) ==
    "image_" \o ToString(image_counter) \o ExtOr(Suffix(image_part.partname))

IncludeGraphics(rel_path) == "\n\\includegraphics[width=\\linewidth]{" \o rel_path \o "}\n"

\* write the file, record its path, build the command
SaveImage(image_part, st, image_path) ==
    [snippet |-> IncludeGraphics(RelativeImagePath(image_path, st.self.tex_output_dir)),
     st |-> [st EXCEPT !.fs.files = WriteBytes(@, image_path, image_part.blob),
                       !.self.saved_images = Append(@, image_path)]]

NameAndSave(image_part, st, image_name) ==
    SaveImage(image_part,
              EnsureImageDir([st EXCEPT !.self.image_counter = @ + 1]),
              PathJoin(st.self.image_dir, image_name))

\* mutant: the image counter is not advanced
ExtractOneNoIncrement(image_part, st) ==
    SaveImage(image_part, EnsureImageDir(st),
              PathJoin(st.self.image_dir, ImageName(image_part, st.self.image_counter)))

\* one picture of the run that resolves to an image part
ExtractOne(image_part, st) ==
    NameAndSave(image_part, st, ImageName(image_part, st.self.image_counter))

\* blips[0].get(qn("r:embed")), None when the picture has no blip
EmbedOf(pic) == IF Len(pic.blips) = 0 THEN None ELSE pic.blips[1]

\* the continue conditions of the loop over the pictures
Skipped(embed) == embed = None \/ embed = "" \/ embed \notin DOMAIN RelatedParts

RECURSIVE ExtractPictures(_, _, _)

AfterOne(pictures, snippets, one) ==
    ExtractPictures(Tail(pictures), Append(snippets, one.snippet), one.st)

\* the loop over run.element.xpath(".//pic:pic")
ExtractPictures(pictures, snippets, st) ==
    IF Len(pictures) = 0 THEN [snippets |-> snippets, st |-> st]
    ELSE IF Skipped(EmbedOf(Head(pictures)))
    THEN ExtractPictures(Tail(pictures), snippets, st)
    ELSE AfterOne(pictures, snippets, ExtractOne(RelatedParts[EmbedOf(Head(pictures))], st))

ExtractImages(run, st) ==
    IF st.self.tex_output_dir = None THEN [snippets |-> <<>>, st |-> st]
    ELSE ExtractPictures(run.pictures, <<>>, st)

RECURSIVE BuildRunParts(_, _, _)

\* the body of the loop over paragraph.runs, for one run
RunStep(runs, parts, img, content) ==
    IF content = "" THEN BuildRunParts(Tail(runs), parts \o img.snippets, img.st)
    ELSE BuildRunParts(Tail(runs),
                       Append(parts \o img.snippets, ApplyRunFormatting(content, Head(runs))),
                       img.st)

\* the loop over paragraph.runs
BuildRunParts(runs, parts, st) ==
    IF Len(runs) = 0 THEN [parts |-> parts, st |-> st]
    ELSE RunStep(runs, parts, ExtractImages(Head(runs), st), EscapeTex(Head(runs).text))

\* sep.join(parts), with the state the loop left
Joined(sep, r) == [text |-> JoinStr(sep, r.parts), st |-> r.st]

BuildRuns(paragraph, st) == Joined("", BuildRunParts(paragraph.runs, <<>>, st))

(***************************************************************************)
(* Paragraphs                                                              *)
(***************************************************************************)
\* _convert_paragraph, given text = _build_runs(paragraph) and the heading command
ParagraphResult(paragraph, list_type, b, heading) ==
    IF b.text = "" THEN [tex |-> "", opened |-> list_type, st |-> b.st]
    ELSE IF heading # None
    THEN [tex |-> heading \o "{" \o b.text \o "}\n", opened |-> None, st |-> b.st]
    ELSE IF list_type # None
    THEN [tex |-> "\\item " \o b.text, opened |-> list_type, st |-> b.st]
    ELSE [tex |-> ApplyAlignment(b.text, paragraph.alignment) \o "\n",
          opened |-> None, st |-> b.st]

ParagraphResultItemUnopened(paragraph, list_type, b, heading) ==
    IF b.text = "" THEN [tex |-> "", opened |-> list_type, st |-> b.st]
    ELSE IF heading # None
    THEN [tex |-> heading \o "{" \o b.text \o "}\n", opened |-> None, st |-> b.st]
    ELSE IF list_type # None
    THEN [tex |-> "\\item " \o b.text, opened |-> None, st |-> b.st]
    ELSE [tex |-> ApplyAlignment(b.text, paragraph.alignment) \o "\n",
          opened |-> None, st |-> b.st]

\* mutant: a list item does not report the list it belongs to
ConvertParagraphItemUnopened(paragraph, list_type, st) ==
    ParagraphResultItemUnopened(paragraph, list_type, BuildRuns(paragraph, st),
                                HeadingCommand(StyleName(paragraph)))

ConvertParagraph(paragraph, list_type, st) ==
    ParagraphResult(paragraph, list_type, BuildRuns(paragraph, st),
                    HeadingCommand(StyleName(paragraph)))

(***************************************************************************)
(* Tables                                                                  *)
(***************************************************************************)
\* the alignment of the cell's first paragraph, None when it has no paragraph
CellAlignment(cell) ==
    IF Len(cell.paragraphs) > 0 THEN cell.paragraphs[1].alignment ELSE None

RECURSIVE ColumnVotes(_, _)
\* the alignments list built by the loop over table.rows; col_idx counts from 0
ColumnVotes(rows, col_idx) ==
    IF Len(rows) = 0 THEN <<>>
    ELSE IF col_idx >= Len(Head(rows).cells) THEN ColumnVotes(Tail(rows), col_idx)
    ELSE <<MapAlignment(CellAlignment(Head(rows).cells[col_idx + 1]))>>
         \o ColumnVotes(Tail(rows), col_idx)

\* counts[align] after the counting loop
CountOf(alignments, align) ==
    Cardinality({i \in 1..Len(alignments) : alignments[i] = align})

\* counts.items(), in the dict's insertion order
CountItems(alignments) ==
    << <<"l", CountOf(alignments, "l")>>,
       <<"c", CountOf(alignments, "c")>>,
       <<"r", CountOf(alignments, "r")>> >>

RECURSIVE MaxItem(_, _)
\* max(items, key=lambda item: item[1]): the first item with the largest count
MaxItem(items, best) ==
    IF Len(items) = 0 THEN best
    ELSE IF Head(items)[2] > best[2] THEN MaxItem(Tail(items), Head(items))
    ELSE MaxItem(Tail(items), best)

RECURSIVE MaxItemLast(_, _)
MaxItemLast(items, best) ==
    IF Len(items) = 0 THEN best
    ELSE IF Head(items)[2] >= best[2] THEN MaxItemLast(Tail(items), Head(items))
    ELSE MaxItemLast(Tail(items), best)

MostCommon(alignments, items) ==
    IF Len(alignments) = 0 THEN "l" ELSE MaxItem(Tail(items), Head(items))[1]

MostCommonLastWins(alignments, items) ==
    IF Len(alignments) = 0 THEN "l" ELSE MaxItemLast(Tail(items), Head(items))[1]

VotesWinner(alignments) == MostCommon(alignments, CountItems(alignments))

VotesWinnerLast(alignments) == MostCommonLastWins(alignments, CountItems(alignments))

\* mutant: among equal counts the last alignment wins instead of the first
ColumnAlignmentLastWins(table, col_idx) == VotesWinnerLast(ColumnVotes(table.rows, col_idx))

ColumnAlignment(table, col_idx) == VotesWinner(ColumnVotes(table.rows, col_idx))

RECURSIVE CellParts(_, _, _)

AlignedCellText(text, align_prefix) ==
    IF align_prefix # "" THEN "{" \o align_prefix \o " " \o text \o "}" ELSE text

\* the body of the loop over cell.paragraphs, for one paragraph
CellStep(paragraphs, parts, b) ==
    IF b.text = "" THEN CellParts(Tail(paragraphs), parts, b.st)
    ELSE CellParts(Tail(paragraphs),
                   Append(parts,
                          AlignedCellText(b.text, CellAlignmentPrefix(Head(paragraphs).alignment))),
                   b.st)

\* the loop over cell.paragraphs
CellParts(paragraphs, parts, st) ==
    IF Len(paragraphs) = 0 THEN [parts |-> parts, st |-> st]
    ELSE CellStep(paragraphs, parts, BuildRuns(Head(paragraphs), st))

ConvertCell(cell, st) ==
    IF Len(cell.paragraphs) = 0 THEN [text |-> "", st |-> st]
    ELSE Joined(" \\\\ ", CellParts(cell.paragraphs, <<>>, st))

RECURSIVE ConvertCells(_, _, _)

CellsStep(cells, texts, c) == ConvertCells(Tail(cells), Append(texts, c.text), c.st)

\* [self._convert_cell(cell) for cell in row.cells]
ConvertCells(cells, texts, st) ==
    IF Len(cells) = 0 THEN [texts |-> texts, st |-> st]
    ELSE CellsStep(cells, texts, ConvertCell(Head(cells), st))

RECURSIVE ConvertRows(_, _, _)

RowsStep(rows, rows_tex, c) ==
    ConvertRows(Tail(rows),
                rows_tex \o <<JoinStr(" & ", c.texts) \o " \\\\", "\\hline">>,
                c.st)

\* the loop over table.rows
ConvertRows(rows, rows_tex, st) ==
    IF Len(rows) = 0 THEN [rows_tex |-> rows_tex, st |-> st]
    ELSE RowsStep(rows, rows_tex, ConvertCells(Head(rows).cells, <<>>, st))

\* the larger of two numbers
Max2(a, b) == IF a >= b THEN a ELSE b

RECURSIVE MaxLenCells(_)
\* max(len(row.cells) for row in table.rows), for a table with at least one row
MaxLenCells(rows) ==
    IF Len(rows) = 1 THEN Len(rows[1].cells)
    ELSE Max2(Len(rows[1].cells), MaxLenCells(Tail(rows)))

TableHead(alignment, border) ==
    <<"\\begin{tabular}{" \o border \o alignment \o border \o "}", "\\hline">>

TableEnd(r) == [rows_tex |-> Append(r.rows_tex, "\\end{tabular}\n"), st |-> r.st]

ConvertTable(table, cfg, st) ==
    TableEnd(ConvertRows(
        table.rows,
        TableHead(JoinStr("|", [i \in 1..MaxLenCells(table.rows) |-> ColumnAlignment(table, i - 1)]),
                  IF cfg.table_border THEN "|" ELSE ""),
        st))

(***************************************************************************)
(* Document assembly                                                       *)
(***************************************************************************)
WrapDocument(body) ==
    JoinStr("\n", <<"\\documentclass{article}",
                    "\\usepackage[utf8]{inputenc}",
                    "\\usepackage{array}",
                    "\\usepackage{xcolor}",
                    "\\usepackage{hyperref}",
                    "\\usepackage{graphicx}",
                    "\\begin{document}">>)
    \o "\n\n" \o body \o "\n\\end{document}\n"

\* mutant: all paragraphs are yielded before all tables
IterBlockItemsParagraphsFirst(body) ==
    LET P[i \in 0..Len(body)] ==
            IF i = 0 THEN <<>>
            ELSE IF EndsWith(body[i].tag, "}p") THEN Append(P[i - 1], i) ELSE P[i - 1]
        T[i \in 0..Len(body)] ==
            IF i = 0 THEN <<>>
            ELSE IF EndsWith(body[i].tag, "}tbl") THEN Append(T[i - 1], i) ELSE T[i - 1]
    IN  P[Len(body)] \o T[Len(body)]

\* The children of the body that are paragraphs or tables, in document order;
\* a yielded Paragraph/Table proxy is modelled by the position of its element.
IterBlockItems(body) ==
    LET F[i \in 0..Len(body)] ==
            IF i = 0 THEN <<>>
            ELSE IF EndsWith(body[i].tag, "}p") \/ EndsWith(body[i].tag, "}tbl")
                 THEN Append(F[i - 1], i)
            ELSE F[i - 1]
    IN  F[Len(body)]

IsParagraph(block) == EndsWith(block.tag, "}p")
IsTable(block) == EndsWith(block.tag, "}tbl")

(***************************************************************************)
(* State                                                                   *)
(***************************************************************************)
VARIABLES
    document,      \* the body's children, in order (the parsed input)
    config,        \* ConverterConfig
    calls,         \* how many times the caller invokes convert on the instance
    self,          \* the converter's fields
    fs,            \* the file system: directories made, files written
    pc,            \* "idle", "loop" (inside convert's for loop), "done"
    idx,           \* position of the loop in IterBlockItems(document)
    lines,         \* convert's local list of output lines
    current_list,  \* convert's local: the open list environment, or None
    origin,        \* for each line, the body position being processed when it was appended
    results        \* the ConversionResult of every finished call

vars == <<document, config, calls, self, fs, pc, idx, lines, current_list, origin, results>>

DocxPath == "/in/report.docx"
OutputDir == "/out"

\* convert's locals and the state its callees change, as one value
Loc == [lines |-> lines, origin |-> origin, current_list |-> current_list,
        st |-> [self |-> self, fs |-> fs]]

Emit(loc, line, pos) ==
    [loc EXCEPT !.lines = Append(@, line), !.origin = Append(@, pos)]

RECURSIVE EmitAll(_, _, _)
EmitAll(loc, ls, pos) ==
    IF Len(ls) = 0 THEN loc ELSE EmitAll(Emit(loc, Head(ls), pos), Tail(ls), pos)

\* lines.append("\\end{current_list}"); current_list = None
CloseList(loc, pos) ==
    [loc EXCEPT !.lines = Append(@, "\\end{" \o loc.current_list \o "}"),
                !.origin = Append(@, pos),
                !.current_list = None]

\* lines.append("\\begin{opened_list}"); current_list = opened_list
OpenList(loc, opened_list, pos) ==
    [loc EXCEPT !.lines = Append(@, "\\begin{" \o opened_list \o "}"),
                !.origin = Append(@, pos),
                !.current_list = opened_list]

\* mutant: the open list is not closed when the classification changes
CloseIfChangedNever(loc, list_type, pos) == loc

\* if current_list and list_type != current_list: close it
CloseIfChanged(loc, list_type, pos) ==
    IF loc.current_list # None /\ list_type # loc.current_list THEN CloseList(loc, pos)
    ELSE loc

\* mutant: a list is opened whether or not one is open already
OpenIfNeededAlways(loc, opened_list, pos) ==
    IF opened_list # None THEN OpenList(loc, opened_list, pos) ELSE loc

\* if opened_list and not current_list: open it
OpenIfNeeded(loc, opened_list, pos) ==
    IF opened_list # None /\ loc.current_list = None THEN OpenList(loc, opened_list, pos)
    ELSE loc

\* if paragraph_tex: lines.append(paragraph_tex)
EmitIfAny(loc, tex, pos) == IF tex # "" THEN Emit(loc, tex, pos) ELSE loc

WithSt(loc, st) == [loc EXCEPT !.st = st]

\* the paragraph branch, given r = _convert_paragraph(block, list_type)
ParagraphEmit(loc, r, pos) == EmitIfAny(OpenIfNeeded(WithSt(loc, r.st), r.opened, pos), r.tex, pos)

\* the isinstance(block, Paragraph) branch of the loop body
ParagraphBranch(loc, block, list_type, pos) ==
    ParagraphEmit(loc, ConvertParagraph(block, list_type, loc.st), pos)

\* if current_list: close it (the table branch and the end of convert)
CloseIfOpen(loc, pos) == IF loc.current_list # None THEN CloseList(loc, pos) ELSE loc

\* lines.extend(rows), given r = _convert_table(block)
TableEmit(loc, r, pos) == EmitAll(WithSt(loc, r.st), r.rows_tex, pos)

TableConvert(loc, block, cfg, pos) == TableEmit(loc, ConvertTable(block, cfg, loc.st), pos)

\* the isinstance(block, Table) branch of the loop body
TableBranch(loc, block, cfg, pos) == TableConvert(CloseIfOpen(loc, pos), block, cfg, pos)

\* list_type = self._get_list_type(block) if isinstance(block, Paragraph) else None
ListTypeOfBlock(block) == IF IsParagraph(block) THEN GetListType(block) ELSE None

\* the loop body after the close of a list of another classification
Dispatch(loc, block, cfg, list_type, pos) ==
    IF IsParagraph(block) THEN ParagraphBranch(loc, block, list_type, pos)
    ELSE IF IsTable(block) THEN TableBranch(loc, block, cfg, pos)
    ELSE loc

LoopBodyWith(loc, block, cfg, list_type, pos) ==
    Dispatch(CloseIfChanged(loc, list_type, pos), block, cfg, list_type, pos)

\* one iteration of convert's for loop
LoopBody(loc, block, cfg, pos) == LoopBodyWith(loc, block, cfg, ListTypeOfBlock(block), pos)

SetLoc(loc) ==
    /\ lines' = loc.lines
    /\ origin' = loc.origin
    /\ current_list' = loc.current_list
    /\ self' = loc.st.self
    /\ fs' = loc.st.fs

(***************************************************************************)
(* Actions                                                                 *)
(***************************************************************************)
\* DocxToLatexConverter.__init__
NewConverter ==
    [image_dir |-> None, saved_images |-> <<>>, tex_output_dir |-> None, image_counter |-> 1]

\* Path(output_dir) if output_dir else docx_path.parent
TexOutputDir == IF OutputDir # None THEN OutputDir ELSE Parent(DocxPath)

\* self._tex_output_dir / f"{docx_path.stem}_images"
ImageDir == PathJoin(TexOutputDir, Stem(DocxPath) \o "_images")

\* mutant: the image counter and the saved paths carry over from the previous call
ConvertStartNoReset ==
    /\ pc \in {"idle", "done"}
    /\ Len(results) < calls
    /\ self' = [self EXCEPT !.tex_output_dir = TexOutputDir, !.image_dir = ImageDir]
    /\ lines' = <<>>
    /\ origin' = <<>>
    /\ current_list' = None
    /\ idx' = 1
    /\ pc' = "loop"
    /\ UNCHANGED <<document, config, calls, fs, results>>

\* convert, up to the for loop
ConvertStart ==
    /\ pc \in {"idle", "done"}
    /\ Len(results) < calls
    /\ self' = [self EXCEPT !.tex_output_dir = TexOutputDir,
                            !.image_dir = ImageDir,
                            !.saved_images = <<>>,
                            !.image_counter = 1]
    /\ lines' = <<>>
    /\ origin' = <<>>
    /\ current_list' = None
    /\ idx' = 1
    /\ pc' = "loop"
    /\ UNCHANGED <<document, config, calls, fs, results>>

\* the block the loop is at, as a position in the body
Blks == IterBlockItems(document)

\* a loop iteration whose block is a paragraph
ProcessParagraph ==
    /\ pc = "loop"
    /\ idx <= Len(Blks)
    /\ IsParagraph(document[Blks[idx]])
    /\ SetLoc(LoopBody(Loc, document[Blks[idx]], config, Blks[idx]))
    /\ idx' = idx + 1
    /\ UNCHANGED <<document, config, calls, pc, results>>

\* a loop iteration whose block is a table
ProcessTable ==
    /\ pc = "loop"
    /\ idx <= Len(Blks)
    /\ IsTable(document[Blks[idx]])
    /\ SetLoc(LoopBody(Loc, document[Blks[idx]], config, Blks[idx]))
    /\ idx' = idx + 1
    /\ UNCHANGED <<document, config, calls, pc, results>>

\* body = "\n".join(lines).strip() + "\n"
Body(ls) == Strip(JoinStr("\n", ls)) \o "\n"

\* latex = self._wrap_document(body) if self.config.include_preamble else body
Latex(body, cfg) == IF cfg.include_preamble THEN WrapDocument(body) ELSE body

\* the end of convert, given its locals after the final close
Finish(loc) ==
    /\ SetLoc(loc)
    /\ results' = Append(results, [latex |-> Latex(Body(loc.lines), config),
                                   image_paths |-> loc.st.self.saved_images])

\* convert, after the for loop
ConvertFinish ==
    /\ pc = "loop"
    /\ idx > Len(Blks)
    /\ Finish(CloseIfOpen(Loc, Len(document) + 1))
    /\ pc' = "done"
    /\ UNCHANGED <<document, config, calls, idx>>

Next == ConvertStart \/ ProcessParagraph \/ ProcessTable \/ ConvertFinish

(***************************************************************************)
(* Inputs                                                                  *)
(***************************************************************************)
MaxBlocks == 4

Run(text, pictures) ==
    [text |-> text, pictures |-> pictures, color |-> None, underline |-> FALSE,
     italic |-> FALSE, bold |-> FALSE, font_name |-> None, size_pt |-> <<>>]

Pic(embed) == [blips |-> <<embed>>]

Para(style, alignment, runs) ==
    [tag |-> "{w}p", style |-> style, alignment |-> alignment, runs |-> runs]

Cell(paragraphs) == [paragraphs |-> paragraphs]

Table(rows) == [tag |-> "{w}tbl", rows |-> [i \in 1..Len(rows) |-> [cells |-> rows[i]]]]

SectPr == [tag |-> "{w}sectPr"]

BoldRun(text) == [Run(text, <<>>) EXCEPT !.bold = TRUE]

SmallTable ==
    Table(<< <<Cell(<<Para("Normal", "CENTER", <<Run("n", <<>>)>>)>>),
               Cell(<<Para("Normal", None, <<Run("1", <<Pic("rId1")>>)>>)>>)>>,
             <<Cell(<<>>)>> >>)

Blocks ==
    { Para("Normal", None, <<Run("a&b", <<>>)>>),
      Para("Normal", "CENTER", <<>>),
      Para("List Bullet", None, <<BoldRun("x")>>),
      Para("List Bullet 2", None, <<Run("", <<>>)>>),
      Para("LIST NUMBER", None, <<Run("1_", <<>>)>>),
      Para("Heading 2", None, <<Run("T", <<>>)>>),
      SmallTable,
      SectPr }

MaxHeadingBlocks == 3

HeadingBlocks ==
    { Para("Heading 1", None, <<Run("A", <<>>)>>),
      Para("HEADING 2", "CENTER", <<BoldRun("B")>>),
      Para("heading 3 Char", None, <<Run("", <<Pic("rId1")>>)>>),
      Para("Heading 4", None, <<Run("D", <<>>)>>),
      Para("heading 5", "RIGHT", <<Run("E_", <<>>)>>),
      Para("Heading 1", None, <<>>),
      Para("Heading 6", None, <<Run("F", <<>>)>>),
      Para("List Bullet", None, <<Run("x", <<>>)>>),
      Para("List Number", None, <<Run("y", <<>>)>>),
      SmallTable }

MaxRows == 3

TextPara(alignment) == Para("Normal", alignment, <<Run("t", <<>>)>>)

\* cells of a first column: no paragraph at all, or a first paragraph of each alignment
FirstCells ==
    { Cell(<<>>),
      Cell(<<TextPara(None)>>),
      Cell(<<TextPara("LEFT")>>),
      Cell(<<TextPara("CENTER"), TextPara("RIGHT")>>),
      Cell(<<TextPara("RIGHT")>>) }

SecondCells == { Cell(<<TextPara("CENTER")>>), Cell(<<TextPara("RIGHT"), TextPara(None)>>) }

\* first cells of a two-cell row: one of each alignment
AlignedFirstCells ==
    { Cell(<<TextPara("LEFT")>>),
      Cell(<<TextPara("CENTER"), TextPara("RIGHT")>>),
      Cell(<<TextPara("RIGHT")>>) }

\* rows of one or two cells: a short row has no cell in the second column
AlignRows ==
    {<<c>> : c \in FirstCells} \cup {<<c, d>> : c \in AlignedFirstCells, d \in SecondCells}

AlignTables == {Table(rows) : rows \in UNION {[1..k -> AlignRows] : k \in 1..MaxRows}}

AlignDocuments == {<<Para("List Bullet", None, <<Run("x", <<>>)>>), t>> : t \in AlignTables}

MaxImageBlocks == 3

ImageTable ==
    Table(<< <<Cell(<<Para("Normal", None, <<Run("c", <<Pic("rId2")>>)>>)>>),
               Cell(<<Para("Normal", "RIGHT", <<Run("", <<Pic("rId1")>>)>>),
                      Para("Normal", None, <<Run("d", <<>>)>>)>>)>> >>)

ImageBlocks ==
    { Para("Normal", None, <<Run("", <<Pic("rId1")>>)>>),
      Para("Heading 1", None, <<Run("H", <<Pic("rId2")>>)>>),
      Para("List Bullet", None, <<Run("i", <<Pic("rId3"), Pic("rId9"), Pic("rId1")>>)>>),
      Para("Normal", None, <<Run("", <<[blips |-> <<>>]>>), Run("", <<Pic(None)>>)>>),
      Para("Normal", "CENTER", <<Run("text", <<>>)>>),
      ImageTable,
      SectPr }

Configs == [include_preamble : BOOLEAN, table_border : BOOLEAN]

MaxLen == 2

Chars == {"\\", "&", "%", "$", "#", "_", "{", "}", "~", "^", "\n", "a", " ", "5"}

RECURSIVE Texts(_)
\* the strings over Chars of length at most n
Texts(n) ==
    IF n = 0 THEN {""}
    ELSE Texts(n - 1) \cup {t \o c : t \in Texts(n - 1), c \in Chars}

EscapeDocuments ==
    {<<Para("Normal", None, <<Run(t, <<>>)>>), SmallTable>> : t \in Texts(MaxLen) \cup {"100% & $5"}}

Documents(blocks, n) == UNION {[1..k -> blocks] : k \in 0..n}

DefaultConfig == [include_preamble |-> TRUE, table_border |-> TRUE]

InitWith(docs, configs, ncalls) ==
    /\ document \in docs
    /\ config \in configs
    /\ calls = ncalls
    /\ self = NewConverter
    /\ fs = [dirs |-> {}, files |-> <<>>]
    /\ pc = "idle"
    /\ idx = 1
    /\ lines = <<>>
    /\ current_list = None
    /\ origin = <<>>
    /\ results = <<>>

Init == InitWith(Documents(Blocks, MaxBlocks), {DefaultConfig}, 1)

InitHeading == InitWith(Documents(HeadingBlocks, MaxHeadingBlocks), {DefaultConfig}, 1)

SpecHeading == InitHeading /\ [][Next]_vars

InitAlign ==
    InitWith(AlignDocuments, {DefaultConfig, [include_preamble |-> FALSE, table_border |-> FALSE]}, 1)

SpecAlign == InitAlign /\ [][Next]_vars

\* the caller converts the same document twice with one converter
InitImages == InitWith(Documents(ImageBlocks, MaxImageBlocks), Configs, 2)

SpecImages == InitImages /\ [][Next]_vars

InitEscape == InitWith(EscapeDocuments, {DefaultConfig}, 1)

SpecEscape == InitEscape /\ [][Next]_vars

Spec == Init /\ [][Next]_vars

(***************************************************************************)
(* Reading the output: list markers and what is open at a line             *)
(***************************************************************************)
ListEnvs == {"itemize", "enumerate"}

IsBegin(line) == \E e \in ListEnvs : line = "\\begin{" \o e \o "}"
IsEnd(line) == \E e \in ListEnvs : line = "\\end{" \o e \o "}"
IsMarker(line) == IsBegin(line) \/ IsEnd(line)
IsItem(line) == StartsWith(line, "\\item ")
EnvOf(line) == CHOOSE e \in ListEnvs : line \in {"\\begin{" \o e \o "}", "\\end{" \o e \o "}"}

\* the list environment open after one more line: None, an environment, or "bad"
\* when a \begin comes while one is open or an \end matches no open \begin
OpenStep(open, line) ==
    IF open = "bad" THEN "bad"
    ELSE IF IsBegin(line) THEN (IF open = None THEN EnvOf(line) ELSE "bad")
    ELSE IF IsEnd(line) THEN (IF open = EnvOf(line) THEN None ELSE "bad")
    ELSE open

RECURSIVE OpenFrom(_, _, _, _)
OpenFrom(ls, i, n, open) ==
    IF i > n THEN open ELSE OpenFrom(ls, i + 1, n, OpenStep(open, ls[i]))

\* the list environment open after the first n lines of ls
OpenAfter(ls, n) == OpenFrom(ls, 1, n, None)

\* the lines appended while the loop was at one of the body positions in S, in order
LinesOf(S) ==
    LET F[i \in 0..Len(lines)] ==
            IF i = 0 THEN <<>>
            ELSE IF origin[i] \in S THEN Append(F[i - 1], lines[i])
            ELSE F[i - 1]
    IN  F[Len(lines)]

\* a line that carries a block's own output (not a list marker)
IsContent(i) == ~IsMarker(lines[i])

\* the paragraph renders to the empty string (no run text, no image)
IsEmptyParagraph(block) ==
    \A r \in 1..Len(block.runs) :
        /\ block.runs[r].text = ""
        /\ \A k \in 1..Len(block.runs[r].pictures) :
              LET pic == block.runs[r].pictures[k]
              IN  Len(pic.blips) = 0 \/ pic.blips[1] \notin DOMAIN RelatedParts


(***************************************************************************)
(* C1: at every point of convert at most one list environment is open in   *)
(* the output: every \begin{X} is matched by \end{X} before the next       *)
(* \begin; a table's lines and the output of a paragraph whose list        *)
(* classification differs from the open environment come only after that   *)
(* environment was closed; nothing is open when the conversion has ended.  *)
(***************************************************************************)
C1_AtMostOneListOpen ==
    /\ OpenAfter(lines, Len(lines)) # "bad"
    /\ \A i \in 1..Len(lines) :
          (IsContent(i) /\ origin[i] <= Len(document)) =>
              LET block == document[origin[i]]
                  open == OpenAfter(lines, i - 1)
              IN  /\ IsTable(block) => open = None
                  /\ IsParagraph(block) => open \in {None, GetListType(block)}
    /\ pc = "done" => OpenAfter(lines, Len(lines)) = None

\* a finished conversion in which a list was closed for a table and another
\* list was closed to open a list of the other type
C1_Witness ==
    /\ pc = "done"
    /\ \E i \in 1..Len(lines) :
          IsEnd(lines[i]) /\ origin[i] <= Len(document) /\ IsTable(document[origin[i]])
    /\ \E i \in 1..(Len(lines) - 1) :
          IsEnd(lines[i]) /\ IsBegin(lines[i + 1]) /\ EnvOf(lines[i]) # EnvOf(lines[i + 1])

(***************************************************************************)
(* C2: a paragraph whose rendered text is empty emits nothing and leaves   *)
(* the open list environment as it was: the loop iteration for it appends  *)
(* no line and does not change current_list.                               *)
(***************************************************************************)
C2_EmptyParagraphSilent ==
    [][(ProcessParagraph /\ IsEmptyParagraph(document[Blks[idx]]))
          => (lines' = lines /\ current_list' = current_list)]_vars

(***************************************************************************)
(* C10: every \item line lies inside an open list environment of its own   *)
(* paragraph's classification: the environment open just before the line   *)
(* is itemize for an itemize paragraph and enumerate for an enumerate one. *)
(***************************************************************************)
C10_ItemInsideOwnList ==
    \A i \in 1..Len(lines) :
        IsItem(lines[i]) =>
            /\ OpenAfter(lines, i - 1) \in ListEnvs
            /\ origin[i] <= Len(document)
            /\ IsParagraph(document[origin[i]])
            /\ OpenAfter(lines, i - 1) = GetListType(document[origin[i]])

\* a finished conversion with an item in an itemize and an item in an enumerate
C10_Witness ==
    /\ pc = "done"
    /\ \E i, j \in 1..Len(lines) :
          /\ IsItem(lines[i]) /\ OpenAfter(lines, i - 1) = "itemize"
          /\ IsItem(lines[j]) /\ OpenAfter(lines, j - 1) = "enumerate"

(***************************************************************************)
(* C4: list grouping.  In a finished conversion, k >= 1 consecutive        *)
(* non-empty paragraphs of one list classification X (a group that starts  *)
(* the document or follows a block of another classification), followed by *)
(* a non-empty paragraph classified none, produce in this order exactly    *)
(* one \begin{X}, k \item lines, one \end{X} and then the paragraph's      *)
(* output; when the following paragraph has the other list classification  *)
(* Y, \end{X} comes before \begin{Y}.                                      *)
(***************************************************************************)
NonEmptyParagraphAt(k) ==
    IsParagraph(document[Blks[k]]) /\ ~IsEmptyParagraph(document[Blks[k]])

ClassAt(k) == GetListType(document[Blks[k]])

\* blocks a..b of the traversal are such a group and block b + 1 follows it
IsGroup(a, b) ==
    /\ a <= b
    /\ b < Len(Blks)
    /\ \A k \in a..(b + 1) : NonEmptyParagraphAt(k)
    /\ ClassAt(a) \in ListEnvs
    /\ \A k \in a..b : ClassAt(k) = ClassAt(a)
    /\ ClassAt(b + 1) # ClassAt(a)
    /\ a > 1 => ~(IsParagraph(document[Blks[a - 1]]) /\ ClassAt(a - 1) = ClassAt(a))

GroupOutputOK(a, b) ==
    LET X == ClassAt(a)
        Y == ClassAt(b + 1)
        k == b - a + 1
        \* a list of the other type left open by the block before the group is closed first
        pre == IF a > 1 /\ IsParagraph(document[Blks[a - 1]]) /\ ClassAt(a - 1) \in ListEnvs
               THEN <<"\\end{" \o ClassAt(a - 1) \o "}">> ELSE <<>>
        group == LinesOf({Blks[j] : j \in a..b})
        next == LinesOf({Blks[b + 1]})
    IN  /\ Len(group) = Len(pre) + 1 + k
        /\ SubSeq(group, 1, Len(pre)) = pre
        /\ group[Len(pre) + 1] = "\\begin{" \o X \o "}"
        /\ \A j \in 1..k : IsItem(group[Len(pre) + 1 + j])
        /\ Len(next) >= 2
        /\ next[1] = "\\end{" \o X \o "}"
        /\ IF Y = None
           THEN Len(next) = 2 /\ ~IsMarker(next[2]) /\ ~IsItem(next[2])
           ELSE Len(next) = 3 /\ next[2] = "\\begin{" \o Y \o "}" /\ IsItem(next[3])

C4_ListGrouping ==
    pc = "done" =>
        \A a \in 1..Len(Blks) : \A b \in a..Len(Blks) : IsGroup(a, b) => GroupOutputOK(a, b)

\* a finished conversion of three list paragraphs followed by a plain one
C4_Witness ==
    /\ pc = "done"
    /\ \E a \in 1..Len(Blks) : IsGroup(a, a + 2) /\ ClassAt(a + 3) = None

(***************************************************************************)
(* C9: the output keeps the input's block order.  Lines appear in the      *)
(* order of the blocks they come from, paragraphs and tables interleaved   *)
(* as in the document; a child of the body that is neither a paragraph nor *)
(* a table contributes no line; in a finished conversion every non-empty   *)
(* paragraph has its one line and every table its lines.                   *)
(***************************************************************************)
ContentCount(pos) ==
    Cardinality({i \in 1..Len(lines) : origin[i] = pos /\ IsContent(i)})

C9_BlockOrder ==
    /\ \A i \in 1..(Len(lines) - 1) : origin[i] <= origin[i + 1]
    /\ \A i \in 1..Len(lines) :
          origin[i] <= Len(document) =>
              (IsParagraph(document[origin[i]]) \/ IsTable(document[origin[i]]))
    /\ pc = "done" =>
          \A pos \in 1..Len(document) :
              ContentCount(pos) =
                  IF IsTable(document[pos]) THEN 2 * Len(document[pos].rows) + 3
                  ELSE IF IsParagraph(document[pos]) /\ ~IsEmptyParagraph(document[pos]) THEN 1
                  ELSE 0

\* a finished conversion of: paragraph, unrecognised child, table, paragraph
C9_Witness ==
    /\ pc = "done"
    /\ Len(document) = 4
    /\ IsParagraph(document[1]) /\ ~IsEmptyParagraph(document[1])
    /\ document[2] = SectPr
    /\ IsTable(document[3])
    /\ IsParagraph(document[4]) /\ ~IsEmptyParagraph(document[4])
    /\ ContentCount(1) = 1 /\ ContentCount(4) = 1

(***************************************************************************)
(* C5: a non-empty paragraph whose style name starts, in any letter case,  *)
(* with "heading 1" .. "heading 5" emits the heading command of that level *)
(* and takes no part in a list: its one line is the command applied to its *)
(* text, it comes with no \begin and no \item, and no list environment is  *)
(* open where the line stands (a list open before it is closed first).     *)
(***************************************************************************)
HeadingLevels == 1..5

HeadingCommands ==
    <<"\\section", "\\subsection", "\\subsubsection", "\\paragraph", "\\subparagraph">>

IsHeadingStyle(style, n) == StartsWith(Lower(style), "heading " \o ToString(n))

\* the loop has gone through the block at body position pos
Processed(pos) == pc \in {"loop", "done"} /\ \E k \in 1..(idx - 1) : Blks[k] = pos

HeadingOK(pos, n) ==
    LET at == {i \in 1..Len(lines) : origin[i] = pos}
        content == {i \in at : IsContent(i)}
    IN  /\ Cardinality(content) = 1
        /\ \A i \in content :
              /\ StartsWith(lines[i], HeadingCommands[n] \o "{")
              /\ EndsWith(lines[i], "}\n")
              /\ OpenAfter(lines, i - 1) = None
              /\ OpenAfter(lines, i) = None
        /\ \A i \in at : ~IsBegin(lines[i]) /\ ~IsItem(lines[i])

C5_HeadingNeverInList ==
    \A pos \in 1..Len(document) : \A n \in HeadingLevels :
        (/\ Processed(pos)
         /\ IsParagraph(document[pos])
         /\ ~IsEmptyParagraph(document[pos])
         /\ IsHeadingStyle(document[pos].style, n))
        => HeadingOK(pos, n)

\* a finished conversion in which a heading in capitals directly follows a list item
\* and the list was closed at the heading
C5_Witness ==
    /\ pc = "done"
    /\ \E k \in 1..(Len(Blks) - 1) :
          /\ NonEmptyParagraphAt(k) /\ ClassAt(k) \in ListEnvs
          /\ NonEmptyParagraphAt(k + 1)
          /\ document[Blks[k + 1]].style = "HEADING 2"
          /\ LinesOf({Blks[k + 1]}) = <<"\\end{" \o ClassAt(k) \o "}", "\\subsection{\\textbf{B}}\n">>

(***************************************************************************)
(* C6: in the column declaration of every table, each column below the     *)
(* column count (the largest number of cells in a row) has the alignment   *)
(* with the most votes among left, center, right, ties going to left       *)
(* before center before right.  Each row with a cell in the column votes   *)
(* once, with the alignment of the cell's first paragraph, or left when    *)
(* the cell has no paragraph or the alignment is unset.                    *)
(***************************************************************************)
Alignments == <<"left", "center", "right">>

Vote(cell) ==
    IF Len(cell.paragraphs) = 0 \/ cell.paragraphs[1].alignment = None THEN "left"
    ELSE IF cell.paragraphs[1].alignment = "LEFT" THEN "left"
    ELSE IF cell.paragraphs[1].alignment = "CENTER" THEN "center"
    ELSE "right"

VotesFor(table, col, v) ==
    Cardinality({r \in 1..Len(table.rows) :
                    Len(table.rows[r].cells) >= col /\ Vote(table.rows[r].cells[col]) = v})

Winner(table, col) ==
    Alignments[CHOOSE i \in 1..3 :
        \A j \in 1..3 :
            \/ VotesFor(table, col, Alignments[i]) > VotesFor(table, col, Alignments[j])
            \/ /\ VotesFor(table, col, Alignments[i]) = VotesFor(table, col, Alignments[j])
               /\ i <= j]

ColumnCount(table) ==
    CHOOSE n \in 0..100 :
        /\ \E r \in 1..Len(table.rows) : Len(table.rows[r].cells) = n
        /\ \A r \in 1..Len(table.rows) : Len(table.rows[r].cells) <= n

Letter(v) == IF v = "left" THEN "l" ELSE IF v = "center" THEN "c" ELSE "r"

ClaimedDeclaration(table) ==
    LET border == IF config.table_border THEN "|" ELSE ""
        cols == [c \in 1..ColumnCount(table) |-> Letter(Winner(table, c))]
    IN  "\\begin{tabular}{" \o border \o JoinStr("|", cols) \o border \o "}"

C6_ColumnAlignmentVote ==
    \A pos \in 1..Len(document) :
        (Processed(pos) /\ IsTable(document[pos])) =>
            /\ \E i \in 1..Len(lines) : origin[i] = pos /\ lines[i] = ClaimedDeclaration(document[pos])
            /\ \A i \in 1..Len(lines) :
                  (origin[i] = pos /\ StartsWith(lines[i], "\\begin{tabular}"))
                      => lines[i] = ClaimedDeclaration(document[pos])

\* a converted table whose first column is a three-way tie (left, center, right)
\* and whose second column has the votes center, center, right
C6_Witness ==
    /\ pc = "done"
    /\ \E pos \in 1..Len(document) :
          /\ IsTable(document[pos])
          /\ Len(document[pos].rows) = 3
          /\ \A v \in {"left", "center", "right"} : VotesFor(document[pos], 1, v) = 1
          /\ VotesFor(document[pos], 2, "center") = 2
          /\ VotesFor(document[pos], 2, "right") = 1
          /\ \E i \in 1..Len(lines) : origin[i] = pos /\ lines[i] = "\\begin{tabular}{|l|c|}"

(***************************************************************************)
(* C7: in every finished conversion the image files and the reference      *)
(* commands correspond one to one.  The i-th embedded image met in the     *)
(* traversal (body paragraphs, headings, list items, table cells) is       *)
(* written as image_<i><ext>, i = 1, 2, ... without gaps; the output has   *)
(* exactly one \includegraphics of that file's path relative to the output *)
(* directory and no other \includegraphics; the result's path list is      *)
(* these files in the order met.                                           *)
(***************************************************************************)
IsEmbedded(pic) == Len(pic.blips) > 0 /\ pic.blips[1] \in DOMAIN RelatedParts

ExtOfPic(pic) ==
    LET suffix == Suffix(RelatedParts[pic.blips[1]].partname)
    IN  IF suffix = "" THEN ".png" ELSE suffix

\* extensions of the embedded images of a run, a paragraph, a table, a body: in the order met
RunExts(run) ==
    LET F[i \in 0..Len(run.pictures)] ==
            IF i = 0 THEN <<>>
            ELSE IF IsEmbedded(run.pictures[i]) THEN Append(F[i - 1], ExtOfPic(run.pictures[i]))
            ELSE F[i - 1]
    IN  F[Len(run.pictures)]

ParagraphExts(paragraph) ==
    LET F[i \in 0..Len(paragraph.runs)] ==
            IF i = 0 THEN <<>> ELSE F[i - 1] \o RunExts(paragraph.runs[i])
    IN  F[Len(paragraph.runs)]

CellExts(cell) ==
    LET F[i \in 0..Len(cell.paragraphs)] ==
            IF i = 0 THEN <<>> ELSE F[i - 1] \o ParagraphExts(cell.paragraphs[i])
    IN  F[Len(cell.paragraphs)]

RowExts(row) ==
    LET F[i \in 0..Len(row.cells)] ==
            IF i = 0 THEN <<>> ELSE F[i - 1] \o CellExts(row.cells[i])
    IN  F[Len(row.cells)]

TableExts(table) ==
    LET F[i \in 0..Len(table.rows)] ==
            IF i = 0 THEN <<>> ELSE F[i - 1] \o RowExts(table.rows[i])
    IN  F[Len(table.rows)]

BlockExts(block) ==
    IF IsParagraph(block) THEN ParagraphExts(block)
    ELSE IF IsTable(block) THEN TableExts(block)
    ELSE <<>>

DocumentExts ==
    LET F[i \in 0..Len(document)] ==
            IF i = 0 THEN <<>> ELSE F[i - 1] \o BlockExts(document[i])
    IN  F[Len(document)]

\* how many times sub occurs in s
CountOcc(s, sub) ==
    Cardinality({i \in 1..(Len(s) - Len(sub) + 1) : SubSeq(s, i, i + Len(sub) - 1) = sub})

ImagesDirName == Stem(DocxPath) \o "_images"

C7_ImagesOneToOne ==
    pc = "done" =>
        LET r == results[Len(results)]
            exts == DocumentExts
            name(i) == "image_" \o ToString(i) \o exts[i]
            path(i) == OutputDir \o "/" \o ImagesDirName \o "/" \o name(i)
            ref(i) == "\\includegraphics[width=\\linewidth]{" \o ImagesDirName \o "/" \o name(i) \o "}"
        IN  /\ r.image_paths = [i \in 1..Len(exts) |-> path(i)]
            /\ DOMAIN fs.files = {path(i) : i \in 1..Len(exts)}
            /\ Cardinality(DOMAIN fs.files) = Len(exts)
            /\ \A i \in 1..Len(exts) : CountOcc(r.latex, ref(i)) = 1
            /\ CountOcc(r.latex, "\\includegraphics") = Len(exts)

\* a finished conversion with images in a heading, a list item and a table's cells
C7_Witness ==
    /\ pc = "done"
    /\ Len(results[Len(results)].image_paths) = 5
    /\ \E p, q, t \in 1..Len(document) :
          /\ IsParagraph(document[p]) /\ document[p].style = "Heading 1"
          /\ IsParagraph(document[q]) /\ document[q].style = "List Bullet"
          /\ IsTable(document[t])
    /\ CountOcc(results[Len(results)].latex, "\\includegraphics") = 5

(***************************************************************************)
(* C8: converting the same document twice with the same configuration on   *)
(* one converter gives the same output text and the same image paths: each *)
(* call starts with an empty line list, no open list, image counter 1 and  *)
(* an empty path list, whatever the call before it left behind.            *)
(***************************************************************************)
C8_SecondCallSameResult ==
    /\ (pc = "loop" /\ idx = 1) =>
          /\ self.image_counter = 1
          /\ self.saved_images = <<>>
          /\ current_list = None
          /\ lines = <<>>
    /\ Len(results) = 2 => results[1] = results[2]

\* the second call has finished on a document with images and a list
C8_Witness ==
    /\ Len(results) = 2
    /\ Len(results[2].image_paths) >= 2
    /\ \E i \in 1..Len(lines) : IsItem(lines[i])

(***************************************************************************)
(* C3: the escaper returns, for every text, the concatenation over its     *)
(* characters of: the escaped form for each of \ & % $ # _ { } ~ ^, the    *)
(* inline line break (two backslashes and a space) for a line break, and   *)
(* the character itself otherwise; the empty text gives the empty text.    *)
(* Stated on the line convert emits for a plain paragraph of one           *)
(* unformatted run, which is the escaped text followed by a newline.       *)
(***************************************************************************)
ClaimedChar(c) ==
    CASE c = "\\" -> "\\textbackslash{}"
      [] c = "&" -> "\\&"
      [] c = "%" -> "\\%"
      [] c = "$" -> "\\$"
      [] c = "#" -> "\\#"
      [] c = "_" -> "\\_"
      [] c = "{" -> "\\{"
      [] c = "}" -> "\\}"
      [] c = "~" -> "\\textasciitilde{}"
      [] c = "^" -> "\\textasciicircum{}"
      [] c = "\n" -> "\\\\ "
      [] OTHER -> c

RECURSIVE ClaimedEscape(_)
ClaimedEscape(text) ==
    IF text = "" THEN ""
    ELSE ClaimedChar(CharAt(text, 1)) \o ClaimedEscape(SubSeq(text, 2, Len(text)))

C3_EscapePerCharacter ==
    \A pos \in 1..Len(document) :
        (/\ Processed(pos)
         /\ IsParagraph(document[pos])
         /\ Len(document[pos].runs) = 1)
        => LET text == document[pos].runs[1].text
           IN  LinesOf({pos}) = IF text = "" THEN <<>> ELSE <<ClaimedEscape(text) \o "\n">>

====
